---- MODULE Spec2Model ----
(***************************************************************************)
(* Hybrid retrieval and ranking engine of backend-medical:                 *)
(*   app/services/rag_optimizer.py      RAGOptimizer                       *)
(*   app/services/rag_service.py        RAGService                         *)
(*   app/services/hybrid_rag_service.py HybridRAGService                   *)
(*                                                                         *)
(* Conventions.                                                            *)
(*  - A Python str is a sequence of atoms; an atom is the whitespace       *)
(*    character SP or a word (a maximal run of non-whitespace characters), *)
(*    so two words are never adjacent in a string.                         *)
(*  - Similarities and scores are exact fixed-point numbers in units of    *)
(*    1e-5 (One = 1.0).  Floating-point rounding error is not modelled;    *)
(*    the explicit round(x, 4) of the code is.                             *)
(*  - hashlib.md5 is modelled as injective: a cache key is the normalised  *)
(*    string itself.                                                       *)
(***************************************************************************)
EXTENDS Integers, Sequences, FiniteSets, TLC

VARIABLES
    embedding_cache,    \* RAGOptimizer._embedding_cache : key -> vector
    cache_ttl,          \* RAGOptimizer._cache_ttl       : key -> insertion time
    now,                \* time.time()
    cacheLog,           \* history: last put per key, and the last get observed
    xq,                 \* expand_query harness: input, expand(q), expand(expand(q))
    rr,                 \* rerank_results harness: input list, returned list
    at,                 \* adaptive_threshold harness: results, min, max, returned value;
                        \* optimized_semantic_search and _search_official_documents
                        \* harness: table, threshold, limit, returned list
    notes,              \* table notes JOIN note_embeddings
    documents,          \* table documents JOIN document_embeddings
    official_documents, \* table official_documents JOIN official_document_embeddings
    req,                \* the request in progress (ask_with_hybrid_rag / ask_with_context)
    inflight,           \* retrievals running side by side on the one embedding cache
    qm                  \* validate_response_quality harness: arguments, returned report

vars == <<embedding_cache, cache_ttl, now, cacheLog, xq, rr, at,
          notes, documents, official_documents, req, inflight, qm>>

(***************************************************************************)
(* Bounds of the model.                                                    *)
(***************************************************************************)
MaxQueryLen == 4        \* atoms in a query given to expand_query
MaxTicks == 2           \* clock steps
MaxResults == 3         \* results in a list given to rerank / adaptive_threshold

None == "None"          \* Python None

Range(s) == {s[i] : i \in DOMAIN s}

(***************************************************************************)
(* Strings.                                                                *)
(***************************************************************************)
SP == " "

\* str.lower() on the words of the model's vocabulary.
Lower(w) ==
    CASE w = "DOR" -> "dor"
      [] w = "Febre" -> "febre"
      [] w = "Cabeça" -> "cabeça"
      [] OTHER -> w

LowerStr(s) == [i \in DOMAIN s |-> Lower(s[i])]

RECURSIVE LStrip(_)
LStrip(s) == IF s # <<>> /\ Head(s) = SP THEN LStrip(Tail(s)) ELSE s

RECURSIVE RStrip(_)
RStrip(s) ==
    IF s # <<>> /\ s[Len(s)] = SP THEN RStrip(SubSeq(s, 1, Len(s) - 1)) ELSE s

\* str.strip()
Strip(s) == RStrip(LStrip(s))

\* str.split(): the words, in order.
Split(s) == SelectSeq(s, LAMBDA a : a # SP)

\* " ".join(words)
RECURSIVE Join(_)
Join(ws) ==
    IF ws = <<>> THEN <<>>
    ELSE IF Len(ws) = 1 THEN ws
    ELSE <<Head(ws), SP>> \o Join(Tail(ws))

\* list(dict.fromkeys(xs)): duplicates dropped, first-seen order kept.
RECURSIVE Dedupe(_)
Dedupe(xs) ==
    IF xs = <<>> THEN <<>>
    ELSE LET init == Dedupe(SubSeq(xs, 1, Len(xs) - 1))
             last == xs[Len(xs)]
         IN IF last \in Range(init) THEN init ELSE Append(init, last)

WellFormed(s) ==
    \A i \in 1..(Len(s) - 1) : s[i] = SP \/ s[i + 1] = SP

StringsOver(atoms, n) ==
    {s \in UNION {[1..k -> atoms] : k \in 0..n} : WellFormed(s)}

(***************************************************************************)
(* RAGOptimizer.expand_query                                               *)
(***************************************************************************)
medical_synonyms ==
    [k \in {"dor", "cabeça", "enjoo", "febre", "tosse", "prescrição",
            "tratamento", "diagnóstico"} |->
        CASE k = "dor" -> <<"dor", "dolor", "algia", "desconforto">>
          [] k = "cabeça" -> <<"cabeça", "crânio", "cefaleia", "cefaléia">>
          [] k = "enjoo" -> <<"enjoo", "náusea", "nausea", "vômito", "vomito">>
          [] k = "febre" -> <<"febre", "hipertermia", "pirexia">>
          [] k = "tosse" -> <<"tosse", "tossir">>
          [] k = "prescrição" -> <<"prescrição", "receita", "prescrever", "medicação">>
          [] k = "tratamento" -> <<"tratamento", "terapia", "terapêutica", "conduta">>
          [] k = "diagnóstico" -> <<"diagnóstico", "diagnostico", "diagnose">>]

\* Variant: the membership test is made on the word as typed and the word
\* kept is the lower-cased one.
TermsOfLowerLate(word) ==
    IF word \in DOMAIN medical_synonyms
    THEN medical_synonyms[word]
    ELSE <<Lower(word)>>

\* The body of the for loop: the terms one word contributes.
TermsOf(word) ==
    IF Lower(word) \in DOMAIN medical_synonyms
    THEN medical_synonyms[Lower(word)]
    ELSE <<word>>

RECURSIVE ExpandedTerms(_)
ExpandedTerms(ws) ==
    IF ws = <<>> THEN <<>> ELSE TermsOf(Head(ws)) \o ExpandedTerms(Tail(ws))

expand_query(query) ==
    LET expanded_query == Join(Dedupe(ExpandedTerms(Split(query))))
    IN IF expanded_query # query THEN expanded_query ELSE query

TokenSet(s) == Range(Split(s))

ExpandWords == {"dor", "DOR", "dolor", "Febre", "cabeça", "rx"}
ExpandQueries == StringsOver(ExpandWords \cup {SP}, MaxQueryLen)

NoXq == [step |-> "off"]

NoInflight == [c \in {} |-> None]

NoQm == [step |-> "off"]

InitExpand ==
    /\ xq \in {[step |-> "input", query |-> q] : q \in ExpandQueries}

ExpandOnce ==
    /\ xq.step = "input"
    /\ xq' = [step |-> "once", query |-> xq.query, once |-> expand_query(xq.query)]
    /\ UNCHANGED <<embedding_cache, cache_ttl, now, cacheLog, rr, at,
                   notes, documents, official_documents, req, inflight, qm>>

ExpandTwice ==
    /\ xq.step = "once"
    /\ xq' = [step |-> "twice", query |-> xq.query, once |-> xq.once,
              twice |-> expand_query(xq.once)]
    /\ UNCHANGED <<embedding_cache, cache_ttl, now, cacheLog, rr, at,
                   notes, documents, official_documents, req, inflight, qm>>

(***************************************************************************)
(* RAGOptimizer: the embedding cache                                       *)
(***************************************************************************)
CACHE_TTL_SECONDS == 3600

\* time.time() when the process starts serving (seconds since the epoch).
StartTime == 1700000000

EmptyMap == [k \in {} |-> None]

MapPut(m, k, v) == [x \in DOMAIN m \cup {k} |-> IF x = k THEN v ELSE m[x]]

MapDel(m, k) == [x \in DOMAIN m \ {k} |-> m[x]]

\* dict.get(k, default)
MapGet(m, k, default) == IF k \in DOMAIN m THEN m[k] ELSE default

\* Variant: the key is not lower-cased.
GetQueryHashNoLower(query) == Strip(query)

\* hashlib.md5(query.lower().strip().encode()).hexdigest()
GetQueryHash(query) == Strip(LowerStr(query))

\* Variant: an entry is still valid when exactly CACHE_TTL_SECONDS old.
get_cached_embedding_le(cache, ttl, t, query) ==
    LET query_hash == Strip(LowerStr(query))
    IN IF query_hash \in DOMAIN cache
       THEN IF t - MapGet(ttl, query_hash, 0) <= CACHE_TTL_SECONDS
            THEN [ret |-> cache[query_hash], cache |-> cache, ttl |-> ttl,
                  raised |-> FALSE]
            ELSE [ret |-> None, cache |-> MapDel(cache, query_hash),
                  ttl |-> MapDel(ttl, query_hash),
                  raised |-> query_hash \notin DOMAIN ttl]
       ELSE [ret |-> None, cache |-> cache, ttl |-> ttl, raised |-> FALSE]

\* Variant: an expired entry is removed from the vector map only.
get_cached_embedding_half(cache, ttl, t, query) ==
    LET query_hash == Strip(LowerStr(query))
    IN IF query_hash \in DOMAIN cache
       THEN IF t - MapGet(ttl, query_hash, 0) < CACHE_TTL_SECONDS
            THEN [ret |-> cache[query_hash], cache |-> cache, ttl |-> ttl,
                  raised |-> FALSE]
            ELSE [ret |-> None, cache |-> MapDel(cache, query_hash), ttl |-> ttl,
                  raised |-> FALSE]
       ELSE [ret |-> None, cache |-> cache, ttl |-> ttl, raised |-> FALSE]

\* get_cached_embedding: the value returned (ret), the two maps as the call
\* leaves them, and whether the call raised (del of a key that is absent).
get_cached_embedding(cache, ttl, t, query) ==
    LET query_hash == GetQueryHash(query)
    IN IF query_hash \in DOMAIN cache
       THEN IF t - MapGet(ttl, query_hash, 0) < CACHE_TTL_SECONDS
            THEN [ret |-> cache[query_hash], cache |-> cache, ttl |-> ttl,
                  raised |-> FALSE]
            ELSE [ret |-> None, cache |-> MapDel(cache, query_hash),
                  ttl |-> MapDel(ttl, query_hash),
                  raised |-> query_hash \notin DOMAIN ttl]
       ELSE [ret |-> None, cache |-> cache, ttl |-> ttl, raised |-> FALSE]

\* Variant: an entry already present is kept (first write wins).
cache_embedding_keep(cache, ttl, t, query, embedding) ==
    LET query_hash == Strip(LowerStr(query))
    IN [cache |-> IF query_hash \in DOMAIN cache THEN cache
                  ELSE MapPut(cache, query_hash, embedding),
        ttl |-> IF query_hash \in DOMAIN ttl THEN ttl ELSE MapPut(ttl, query_hash, t)]

\* cache_embedding: the two maps as the call leaves them.
cache_embedding(cache, ttl, t, query, embedding) ==
    LET query_hash == GetQueryHash(query)
    IN [cache |-> MapPut(cache, query_hash, embedding),
        ttl |-> MapPut(ttl, query_hash, t)]

Vectors == {"v1", "v2"}

CacheQueries == {<<"dor">>, <<SP, "DOR">>, <<"DOR", SP>>, <<"rx">>}

\* Lower-cased and trimmed query text: the cache key of spec section 4.1.
NormalForm(q) == Strip(LowerStr(q))

\* cacheLog.puts[k]: vector, time and query of the last put on normalised key k.
\* cacheLog.get: the get just made (made = FALSE after any other step).
NoGet == [made |-> FALSE, query |-> <<>>, ret |-> None, raised |-> FALSE]

NoCacheLog == [puts |-> EmptyMap, get |-> NoGet, ticks |-> 0]

InitCacheVars ==
    /\ embedding_cache = EmptyMap
    /\ cache_ttl = EmptyMap
    /\ now = StartTime
    /\ cacheLog = NoCacheLog

CacheEmbedding(q, v) ==
    LET r == cache_embedding(embedding_cache, cache_ttl, now, q, v)
    IN /\ embedding_cache' = r.cache
       /\ cache_ttl' = r.ttl
       /\ cacheLog' = [cacheLog EXCEPT
              !.puts = MapPut(@, NormalForm(q), [vec |-> v, at |-> now, query |-> q]),
              !.get = NoGet]
       /\ UNCHANGED <<now, xq, rr, at, notes, documents, official_documents, req,
                      inflight, qm>>

GetCachedEmbedding(q) ==
    LET r == get_cached_embedding(embedding_cache, cache_ttl, now, q)
    IN /\ embedding_cache' = r.cache
       /\ cache_ttl' = r.ttl
       /\ cacheLog' = [cacheLog EXCEPT
              !.get = [made |-> TRUE, query |-> q, ret |-> r.ret,
                       raised |-> r.raised]]
       /\ UNCHANGED <<now, xq, rr, at, notes, documents, official_documents, req,
                      inflight, qm>>

\* The clock advances by one second or by one second less than the TTL.
Tick ==
    /\ cacheLog.ticks < MaxTicks
    /\ \E d \in {1, CACHE_TTL_SECONDS - 1} : now' = now + d
    /\ cacheLog' = [cacheLog EXCEPT !.ticks = @ + 1, !.get = NoGet]
    /\ UNCHANGED <<embedding_cache, cache_ttl, xq, rr, at,
                   notes, documents, official_documents, req, inflight, qm>>

(***************************************************************************)
(* Fixed-point numbers.  One = 1.0; a rational is [num, den] with den > 0. *)
(***************************************************************************)
One == 100000

Rat(n, d) == [num |-> n, den |-> d]

RatLeq(a, b) == a.num * b.den <= b.num * a.den

RatLess(a, b) == a.num * b.den < b.num * a.den

RatMin(a, b) == IF RatLeq(a, b) THEN a ELSE b

RatMax(a, b) == IF RatLeq(b, a) THEN a ELSE b

\* round(x, 4) for x >= 0 in units of 1e-5: the nearest multiple of 1e-4,
\* a tie going to the even neighbour.
Round4(x) ==
    LET q == x \div 10
        r == x % 10
    IN IF r < 5 THEN 10 * q
       ELSE IF r > 5 THEN 10 * (q + 1)
       ELSE IF q % 2 = 0 THEN 10 * q ELSE 10 * (q + 1)

RECURSIVE SumSimilarity(_)
SumSimilarity(results) ==
    IF results = <<>> THEN 0
    ELSE Head(results).similarity + SumSimilarity(Tail(results))

(***************************************************************************)
(* RAGOptimizer.adaptive_threshold                                         *)
(***************************************************************************)
DefaultMinThreshold == 20000

DefaultMaxThreshold == 70000

adaptive_threshold(results, min_threshold, max_threshold) ==
    IF results = <<>> THEN Rat(min_threshold, 1)
    ELSE LET n == Len(results)
             avg_similarity == Rat(SumSimilarity(results), n)
         IN IF RatLess(Rat(60000, 1), avg_similarity)
            THEN RatMin(Rat(max_threshold, 1),
                        Rat(avg_similarity.num - 10000 * n, n))
            ELSE IF RatLess(avg_similarity, Rat(30000, 1))
            THEN RatMax(Rat(min_threshold, 1),
                        Rat(avg_similarity.num - 5000 * n, n))
            ELSE Rat(min_threshold, 1)

ThresholdSims == {10000, 25000, 45000, 65000, 90000}
ThresholdConfigs == {20000, 50000, 60000, 70000}

SeqsUpTo(S, n) == UNION {[1..k -> S] : k \in 0..n}

NoAt == [step |-> "off"]

InitThresholdVars ==
    at \in {a \in {[step |-> "input", results |-> rs, min_threshold |-> lo,
             max_threshold |-> hi] :
               rs \in SeqsUpTo({[similarity |-> x] : x \in ThresholdSims}, MaxResults),
               lo \in ThresholdConfigs,
               hi \in ThresholdConfigs} : a.min_threshold <= a.max_threshold}

AdaptiveThreshold ==
    /\ at.step = "input"
    /\ at' = [at EXCEPT !.step = "done"] @@
             [ret |-> adaptive_threshold(at.results, at.min_threshold,
                                         at.max_threshold)]
    /\ UNCHANGED <<embedding_cache, cache_ttl, now, cacheLog, xq, rr,
                   notes, documents, official_documents, req, inflight, qm>>

(***************************************************************************)
(* RAGOptimizer.calculate_relevance_score and rerank_results               *)
(***************************************************************************)
\* Scores are in units of 1e-6 / 365, so that every term is an integer.
ScoreOne == 365 * 10 * One

Min2(a, b) == IF a <= b THEN a ELSE b

Max2(a, b) == IF a >= b THEN a ELSE b

\* Variant: the score is not capped at 1.0.
calculate_relevance_score_uncapped(similarity, is_favorite, recency_days, has_tags) ==
    365 * 6 * similarity + (IF is_favorite THEN 365 * 150000 ELSE 0)
      + Max2(0, 150000 * (365 - Min2(recency_days, 365)))
      + (IF has_tags THEN 365 * 100000 ELSE 0)

calculate_relevance_score(similarity, is_favorite, recency_days, has_tags) ==
    LET base_score == 365 * 6 * similarity
        favorite_bonus == IF is_favorite THEN 365 * 150000 ELSE 0
        recency_bonus == Max2(0, 150000 * (365 - Min2(recency_days, 365)))
        tags_bonus == IF has_tags THEN 365 * 100000 ELSE 0
        final_score == base_score + favorite_bonus + recency_bonus + tags_bonus
    IN Min2(ScoreOne, final_score)

\* created_at is None, "", a datetime, an ISO string, or another string; for
\* the datetime and the ISO string, days = (datetime.now() - created_at).days.
RecencyDays(created_at) ==
    CASE created_at.kind \in {"none", "empty"} -> 365
      [] created_at.kind \in {"datetime", "isostr"} -> created_at.days
      [] created_at.kind = "badstr" -> 0

\* result["relevance_score"] = relevance_score
Scored(result) ==
    [relevance_score |->
        calculate_relevance_score(result.similarity, result.is_favorite,
                                  RecencyDays(result.created_at),
                                  result.tags # <<>>)] @@ result

\* Variant: reverse=True left out, the list comes out ascending.
InsertAsc(sorted, x, field) ==
    LET after == {i \in 1..Len(sorted) : sorted[i][field] <= x[field]}
        pos == IF after = {} THEN 0 ELSE CHOOSE i \in after : \A j \in after : j <= i
    IN SubSeq(sorted, 1, pos) \o <<x>> \o SubSeq(sorted, pos + 1, Len(sorted))

\* Variant: an element goes before the elements of equal key, so equal keys
\* come out in the reverse of their input order.
InsertDescBefore(sorted, x, field) ==
    LET after == {i \in 1..Len(sorted) : sorted[i][field] > x[field]}
        pos == IF after = {} THEN 0 ELSE CHOOSE i \in after : \A j \in after : j <= i
    IN SubSeq(sorted, 1, pos) \o <<x>> \o SubSeq(sorted, pos + 1, Len(sorted))

\* list.sort(key=lambda x: x[field], reverse=True): stable, equal keys keep
\* their order.
InsertDesc(sorted, x, field) ==
    LET after == {i \in 1..Len(sorted) : sorted[i][field] >= x[field]}
        pos == IF after = {} THEN 0 ELSE CHOOSE i \in after : \A j \in after : j <= i
    IN SubSeq(sorted, 1, pos) \o <<x>> \o SubSeq(sorted, pos + 1, Len(sorted))

RECURSIVE SortDesc(_, _)
SortDesc(xs, field) ==
    IF xs = <<>> THEN <<>>
    ELSE InsertDesc(SortDesc(SubSeq(xs, 1, Len(xs) - 1), field), xs[Len(xs)], field)

rerank_results(results) ==
    SortDesc([i \in DOMAIN results |-> Scored(results[i])], "relevance_score")

RerankSims == {55000, 80000}

CreatedValues ==
    {[kind |-> "none"], [kind |-> "datetime", days |-> 100], [kind |-> "badstr"]}

RerankItems ==
    [similarity : RerankSims, is_favorite : BOOLEAN, tags : {<<>>, <<"t">>},
     created_at : CreatedValues]

\* The i-th item of a list has id i.
WithIds(items) == [i \in DOMAIN items |-> [id |-> i] @@ items[i]]

NoRr == [step |-> "off"]

\* Arguments of a direct call of calculate_relevance_score; a created_at in
\* the future gives a negative recency_days.
ScoreArguments ==
    [similarity : {0, 20000, 55000, 80000, One}, is_favorite : BOOLEAN,
     recency_days : {-30, 0, 100, 364, 365, 366, 1000}, has_tags : BOOLEAN]

InitRerankVars ==
    rr \in {[step |-> "input", results |-> WithIds(items)] :
               items \in SeqsUpTo(RerankItems, MaxResults)}
            \cup {[step |-> "arguments", args |-> a] : a \in ScoreArguments}

CalculateRelevanceScore ==
    /\ rr.step = "arguments"
    /\ rr' = [step |-> "scored", args |-> rr.args,
              ret |-> calculate_relevance_score(rr.args.similarity,
                                                rr.args.is_favorite,
                                                rr.args.recency_days,
                                                rr.args.has_tags)]
    /\ UNCHANGED <<embedding_cache, cache_ttl, now, cacheLog, xq, at,
                   notes, documents, official_documents, req, inflight, qm>>

\* The call sorts the caller's list in place and returns that same list.
RerankResults ==
    /\ rr.step = "input"
    /\ LET ret == rerank_results(rr.results)
       IN rr' = [step |-> "done", results |-> rr.results, ret |-> ret,
                 results_after |-> ret]
    /\ UNCHANGED <<embedding_cache, cache_ttl, now, cacheLog, xq, at,
                   notes, documents, official_documents, req, inflight, qm>>

(***************************************************************************)
(* RAGOptimizer.validate_response_quality                                  *)
(*                                                                         *)
(* The rounded numbers of a report are in hundredths (60 = 0.6).           *)
(***************************************************************************)
MaxQueryTerms == 41     \* distinct terms in a query given to validate_response_quality

\* round(x, 2) of a rational x >= 0, in hundredths: the nearest hundredth, a
\* tie going to the even neighbour.
Round2(x) ==
    LET q == (100 * x.num) \div x.den
        r == (100 * x.num) % x.den
    IN IF 2 * r < x.den THEN q
       ELSE IF 2 * r > x.den THEN q + 1
       ELSE IF q % 2 = 0 THEN q ELSE q + 1

\* len(s): the characters of the atoms.
RECURSIVE CharLen(_)
CharLen(s) == IF s = <<>> THEN 0 ELSE Len(Head(s)) + CharLen(Tail(s))

\* term in response_lower, for a term without whitespace: the term is part
\* of a word of the response.
InText(term, text) ==
    \E a \in Range(text) :
        \E i \in 1..(Len(a) - Len(term) + 1) : SubSeq(a, i, i + Len(term) - 1) = term

validate_response_quality(response, query, context_used) ==
    LET response_lower == LowerStr(response)
        query_lower == LowerStr(query)
        query_terms == TokenSet(query_lower)
        response_terms == TokenSet(response_lower)
        n == Max2(Cardinality(query_terms), 1)
        term_overlap == Rat(Cardinality(query_terms \cap response_terms), n)
        uses_context ==
            /\ Len(context_used) > 0
            /\ \E term \in {"anotação", "documento", "fonte", "protocolo"} :
                  InText(term, response_lower)
        min_length == 50
        completeness ==
            IF CharLen(response) >= min_length
            THEN RatMin(Rat(1, 1), Rat(CharLen(response), min_length))
            ELSE Rat(0, 1)
        \* term_overlap * 0.4 + (1.0 if uses_context else 0.0) * 0.4 + completeness * 0.2
        quality_score ==
            Rat(4 * term_overlap.num * completeness.den
                  + (IF uses_context THEN 4 * n * completeness.den ELSE 0)
                  + 2 * completeness.num * n,
                10 * n * completeness.den)
    IN [quality_score |-> Round2(quality_score),
        term_overlap |-> Round2(term_overlap),
        uses_context |-> uses_context,
        completeness |-> Round2(completeness),
        is_high_quality |-> RatLeq(Rat(6, 10), quality_score)]

\* Query terms: one word with a capital spelling, then one-character words.
QualityWords ==
    <<"DOR", "a", "b", "c", "d", "e", "f", "g", "h", "i", "j", "k", "l", "m",
      "n", "o", "p", "q", "r", "s", "t", "u", "v", "w", "x", "y", "z",
      "0", "1", "2", "3", "4", "5", "6", "7", "8", "9", "+", "-", "=", "#",
      "@", "%", "&">>

\* What a response holds beside terms of the query: nothing, a marker word, a
\* word of fifty characters, or both.
ResponseExtras ==
    {<<>>, <<"fonte">>, <<"xxxxxxxxxxxxxxxxxxxxxxxxxxxxxxxxxxxxxxxxxxxxxxxxxx">>,
     <<"xxxxxxxxxxxxxxxxxxxxxxxxxxxxxxxxxxxxxxxxxxxxxxxxxx", "protocolos">>}

\* The query has the first n words, the response the first k of them in
\* lower case and the extras.
InitQualityVars ==
    qm \in {[step |-> "input",
             query |-> Join(SubSeq(QualityWords, 1, n)),
             response |-> Join(LowerStr(SubSeq(QualityWords, 1, k)) \o extras),
             context_used |-> context_used] :
               n \in 0..MaxQueryTerms, k \in 0..MaxQueryTerms, extras \in ResponseExtras,
               context_used \in {<<>>, <<[id |-> "n1"]>>}}

ValidateResponseQuality ==
    /\ qm.step = "input"
    /\ qm' = [qm EXCEPT !.step = "done"] @@
             [ret |-> validate_response_quality(qm.response, qm.query,
                                                qm.context_used)]
    /\ UNCHANGED <<embedding_cache, cache_ttl, now, cacheLog, xq, rr, at,
                   notes, documents, official_documents, req, inflight>>

(***************************************************************************)
(* The stores and the vector searches.                                     *)
(*                                                                         *)
(* A row carries raw, its similarity 1 - (embedding <=> query_embedding)   *)
(* to the query embedding of the request, as the vector index computes it. *)
(***************************************************************************)
UserLimit == 3

OfficialLimit == 5

ContextLimit == 3

SimilarityThreshold == 20000

Users == {"A", "B"}

NoteUniverse ==
    {[id |-> "n1", user_id |-> "A", raw |-> 20004, is_favorite |-> TRUE,
      tags |-> <<"t">>, created_at |-> [kind |-> "datetime", days |-> 0]],
     [id |-> "n2", user_id |-> "A", raw |-> 90000, is_favorite |-> FALSE,
      tags |-> <<>>, created_at |-> [kind |-> "datetime", days |-> 100]],
     [id |-> "n3", user_id |-> "B", raw |-> 95000, is_favorite |-> FALSE,
      tags |-> <<>>, created_at |-> [kind |-> "datetime", days |-> 100]]}

DocumentUniverse ==
    {[id |-> "d1", user_id |-> "A", raw |-> 20004],
     [id |-> "d2", user_id |-> "A", raw |-> 60000],
     [id |-> "d3", user_id |-> "B", raw |-> 90000]}

OfficialUniverse ==
    {[id |-> "o1", source |-> "pcdt", priority |-> 1, raw |-> 20000],
     [id |-> "o2", source |-> "sbc", priority |-> 2, raw |-> 95000],
     [id |-> "o3", source |-> "pcdt", priority |-> 1, raw |-> 15000]}

RECURSIVE SetToSeq(_)
SetToSeq(S) ==
    IF S = {} THEN <<>>
    ELSE LET x == CHOOSE y \in S : TRUE IN <<x>> \o SetToSeq(S \ {x})

Take(xs, n) == SubSeq(xs, 1, Min2(n, Len(xs)))

\* ORDER BY embedding <=> :query_embedding  (ascending distance)
RowsByDistance(rows) == SortDesc(SetToSeq(rows), "raw")

\* Variant: the comparison with the threshold is >=.
NotesWhereAtLeast(table, user_id, threshold) ==
    {n \in table : n.user_id = user_id /\ n.raw >= threshold}

\* Variant: the rows of every user.
NotesWhereAnyUser(table, user_id, threshold) ==
    {n \in table : n.raw > threshold}

\* WHERE n.user_id = :user_id AND 1 - (ne.embedding <=> :query_embedding) > :threshold
NotesWhere(table, user_id, threshold) ==
    {n \in table : n.user_id = user_id /\ n.raw > threshold}

\* WHERE d.user_id = :user_id AND 1 - (de.embedding <=> ...) > :similarity_threshold
DocumentsWhere(table, user_id, threshold) ==
    {d \in table : d.user_id = user_id /\ d.raw > threshold}

\* r["similarity"] >= adaptive_threshold
AtLeast(similarity, threshold) == RatLeq(threshold, Rat(similarity, 1))

\* optimized_semantic_search steps 4 and 5: the rows fetched with the
\* caller's threshold and LIMIT limit * 2, formatted.
FetchedNotes(table, user_id, limit, similarity_threshold) ==
    LET rows == Take(RowsByDistance(NotesWhere(table, user_id, similarity_threshold)),
                     limit * 2)
    IN [i \in DOMAIN rows |->
          [id |-> rows[i].id, tags |-> rows[i].tags,
           is_favorite |-> rows[i].is_favorite,
           created_at |-> rows[i].created_at,
           similarity |-> Round4(rows[i].raw)]]

\* optimized_semantic_search step 6: if results: keep those of similarity
\* >= adaptive_threshold(results).
AdaptiveFilter(results) ==
    IF results = <<>> THEN results
    ELSE LET threshold == adaptive_threshold(results, DefaultMinThreshold,
                                             DefaultMaxThreshold)
         IN SelectSeq(results, LAMBDA r : AtLeast(r.similarity, threshold))

\* optimized_semantic_search from step 4 on (rerank=True): fetch, format,
\* adaptive filter, rerank, top N.
OptimizedNoteResults(table, user_id, limit, similarity_threshold) ==
    Take(rerank_results(AdaptiveFilter(
             FetchedNotes(table, user_id, limit, similarity_threshold))), limit)

\* A direct call of optimized_semantic_search after its embedding step: the
\* notes table, the caller's threshold and limit.
SearchRaws == {5000, 15000, 20000, 20004, 45000, 90000}

SearchNotes ==
    {[id |-> r, user_id |-> "A", raw |-> r, is_favorite |-> FALSE, tags |-> <<>>,
      created_at |-> [kind |-> "datetime", days |-> 100]] : r \in SearchRaws}
    \cup {[id |-> 1, user_id |-> "B", raw |-> 95000, is_favorite |-> TRUE,
            tags |-> <<>>, created_at |-> [kind |-> "datetime", days |-> 100]]}

SearchThresholds == {0, 10000, 20000, 50000, One}

InitSearchVars ==
    at \in [step : {"query"}, table : SUBSET SearchNotes, user_id : {"A"},
            limit : {1, 2}, similarity_threshold : SearchThresholds]

OptimizedSemanticSearch ==
    /\ at.step = "query"
    /\ at' = [at EXCEPT !.step = "searched"] @@
             [fetched |-> FetchedNotes(at.table, at.user_id, at.limit,
                                       at.similarity_threshold),
              kept |-> AdaptiveFilter(FetchedNotes(at.table, at.user_id, at.limit,
                                                   at.similarity_threshold)),
              ret |-> OptimizedNoteResults(at.table, at.user_id, at.limit,
                                           at.similarity_threshold)]
    /\ UNCHANGED <<embedding_cache, cache_ttl, now, cacheLog, xq, rr,
                   notes, documents, official_documents, req, inflight, qm>>

\* RAGService.semantic_search after the embedding call.
SemanticSearchResults(table, user_id, limit, similarity_threshold) ==
    LET rows == Take(RowsByDistance(NotesWhere(table, user_id, similarity_threshold)),
                     limit)
    IN [i \in DOMAIN rows |->
          [id |-> rows[i].id, tags |-> rows[i].tags,
           is_favorite |-> rows[i].is_favorite,
           created_at |-> [kind |-> "isostr", days |-> rows[i].created_at.days],
           similarity |-> Round4(rows[i].raw)]]

\* RAGService.search_documents after the embedding call.
DocumentResults(table, user_id, limit, similarity_threshold) ==
    LET rows == Take(RowsByDistance(DocumentsWhere(table, user_id, similarity_threshold)),
                     limit)
    IN [i \in DOMAIN rows |->
          [id |-> rows[i].id, type |-> "document",
           similarity |-> Round4(rows[i].raw)]]

\* ORDER BY od.priority ASC, similarity DESC
OfficialOrder(rows) ==
    LET keyed == {[ord |-> r.raw - 2 * One * r.priority] @@ r : r \in rows}
        sorted == SortDesc(SetToSeq(keyed), "ord")
    IN [i \in DOMAIN sorted |-> [f \in DOMAIN sorted[i] \ {"ord"} |-> sorted[i][f]]]

\* if row[6] >= similarity_threshold
OfficialPasses(raw, similarity_threshold) == raw >= similarity_threshold

\* HybridRAGService._search_official_documents after the embedding call.
OfficialResults(table, limit, similarity_threshold) ==
    LET rows == Take(OfficialOrder(table), limit)
        hits == SelectSeq(rows, LAMBDA r : OfficialPasses(r.raw, similarity_threshold))
    IN [i \in DOMAIN hits |->
          [id |-> hits[i].id, type |-> "official", source |-> hits[i].source,
           priority |-> hits[i].priority, similarity |-> Round4(hits[i].raw)]]

\* A direct call of _search_official_documents after its embedding step:
\* the official documents, the limit and the threshold.
InitOfficialVars ==
    at \in [step : {"official_query"}, table : SUBSET OfficialUniverse,
            limit : {1, 2, 3, OfficialLimit},
            similarity_threshold : {SimilarityThreshold, 50000}]

SearchOfficialDocuments ==
    /\ at.step = "official_query"
    /\ at' = [at EXCEPT !.step = "official_done"] @@
             [ret |-> OfficialResults(at.table, at.limit, at.similarity_threshold)]
    /\ UNCHANGED <<embedding_cache, cache_ttl, now, cacheLog, xq, rr,
                   notes, documents, official_documents, req, inflight, qm>>

(***************************************************************************)
(* ask_with_hybrid_rag and ask_with_context.                               *)
(***************************************************************************)
MaxRequests == 2    \* requests served in one behaviour

\* The vector the embedding provider returns for a text.
EmbeddingOf(text) == "v1"

Questions == {<<"dor">>, <<"DOR", SP>>}

\* item.get("type", "note")
TypeOf(item) == IF "type" \in DOMAIN item THEN item.type ELSE "note"

ContextPart(item) == [type |-> TypeOf(item), id |-> item.id]

\* Variant: the three lists merged by decreasing similarity.
AllContextBySimilarity(user_notes, user_documents, official_docs) ==
    SortDesc(user_notes \o user_documents \o official_docs, "similarity")

\* results["user_notes"] + results["user_documents"] + results["official_documents"]
AllContext(user_notes, user_documents, official_docs) ==
    user_notes \o user_documents \o official_docs

\* Variant: the early return is never taken.
NeverEmpty(context) == FALSE

\* if not context_parts: / if not all_context:
IsEmpty(context) == context = <<>>

NoResult ==
    [raised |-> FALSE, answer |-> "", context_used |-> <<>>, has_context |-> FALSE,
     sources |-> <<>>]

Raised == [NoResult EXCEPT !.raised = TRUE]

\* No dict returned by MedicalAssistantAgent.chat (yet).
NoChat == [agent |-> "none"]

IdleReq ==
    [pc |-> "idle", op |-> "none", user |-> "none", question |-> <<>>, count |-> 0,
     user_notes |-> <<>>, user_documents |-> <<>>, official_docs |-> <<>>,
     ran |-> {}, failed |-> {}, context |-> <<>>, prompt |-> <<>>,
     attempt |-> 0, gen_calls |-> 0, embed_calls |-> 0, cache_hit |-> FALSE,
     response |-> <<>>, result |-> NoResult, chat |-> NoChat]

\* MedicalAssistantAgent.chat has its hybrid_result without context and has
\* not yet tried the web.
ChatPending ==
    /\ req.op = "hybrid" /\ req.pc = "done"
    /\ req.chat = NoChat
    /\ ~req.result.raised /\ req.result.answer = "no_context"

InitStores ==
    /\ notes \in SUBSET NoteUniverse
    /\ documents \in SUBSET DocumentUniverse
    /\ official_documents \in SUBSET OfficialUniverse
    /\ req = IdleReq

\* Variant: the request body is not validated.
ValidationOff(text) == TRUE

\* message / question: str = Field(..., min_length=1): the body of a request
\* is validated before the route function is called.
ValidationPasses(text) == Len(text) >= 1

\* The 422 response of a request whose body fails validation.
Rejected == [NoResult EXCEPT !.answer = "validation_error"]

\* The texts a client sends: the questions, and the empty string.
RequestTexts == Questions \cup {<<>>}

\* POST .../medical-assistant/chat (op = "hybrid") and POST /rag/ask
\* (op = "context"), up to the call of the service.
Start(op, user, question) ==
    /\ req.pc \in {"idle", "done"}
    /\ ~ChatPending
    /\ req.count < MaxRequests
    /\ req' = IF ValidationPasses(question)
              THEN [IdleReq EXCEPT !.pc = "notes", !.op = op, !.user = user,
                                   !.question = question, !.count = req.count + 1]
              ELSE [IdleReq EXCEPT !.pc = "done", !.op = op, !.user = user,
                                   !.question = question, !.count = req.count + 1,
                                   !.result = Rejected]
    /\ UNCHANGED <<embedding_cache, cache_ttl, now, cacheLog, xq, rr, at,
                   notes, documents, official_documents, inflight, qm>>

StartHybrid == \E u \in Users, q \in RequestTexts : Start("hybrid", u, q)

StartContext == \E u \in Users, q \in RequestTexts : Start("context", u, q)

\* An exception leaves the operation: nothing catches it in the services.
Raise(source) ==
    [req EXCEPT !.pc = "done", !.failed = @ \cup {source}, !.result = Raised]

\* hybrid_search step 1: RAGOptimizer.optimized_semantic_search(use_cache=True,
\* expand_query=True, rerank=True).
HybridNotesSearch ==
    /\ req.op = "hybrid" /\ req.pc = "notes"
    /\ \E embedOk \in BOOLEAN, dbOk \in BOOLEAN :
        LET search_query == expand_query(req.question)
            got == get_cached_embedding(embedding_cache, cache_ttl, now, search_query)
            miss == got.ret = None
            put == cache_embedding(got.cache, got.ttl, now, search_query,
                                   EmbeddingOf(search_query))
            calls == req.embed_calls + (IF miss THEN 1 ELSE 0)
        IN IF got.raised \/ (miss /\ ~embedOk)
           THEN /\ embedding_cache' = got.cache
                /\ cache_ttl' = got.ttl
                /\ req' = [Raise("notes") EXCEPT !.embed_calls = calls]
           ELSE /\ embedding_cache' = IF miss THEN put.cache ELSE got.cache
                /\ cache_ttl' = IF miss THEN put.ttl ELSE got.ttl
                /\ req' = IF dbOk
                          THEN [req EXCEPT
                                 !.pc = "docs", !.ran = @ \cup {"notes"},
                                 !.embed_calls = calls, !.cache_hit = ~miss,
                                 !.user_notes =
                                     OptimizedNoteResults(notes, req.user, UserLimit,
                                                          SimilarityThreshold)]
                          ELSE [Raise("notes") EXCEPT !.embed_calls = calls,
                                                      !.cache_hit = ~miss]
    /\ UNCHANGED <<now, cacheLog, xq, rr, at, notes, documents, official_documents,
                   inflight, qm>>

\* hybrid_search step 2: RAGService.search_documents.
HybridDocsSearch ==
    /\ req.op = "hybrid" /\ req.pc = "docs"
    /\ \E ok \in BOOLEAN :
        req' = IF ok
               THEN [req EXCEPT
                      !.pc = "official", !.ran = @ \cup {"documents"},
                      !.embed_calls = @ + 1,
                      !.user_documents =
                          DocumentResults(documents, req.user, UserLimit,
                                          SimilarityThreshold)]
               ELSE [Raise("documents") EXCEPT !.embed_calls = @ + 1]
    /\ UNCHANGED <<embedding_cache, cache_ttl, now, cacheLog, xq, rr, at,
                   notes, documents, official_documents, inflight, qm>>

\* hybrid_search step 3 (_search_official_documents), then ask_with_hybrid_rag
\* up to the first generation call: context_parts, the early return.
HybridOfficialSearch ==
    /\ req.op = "hybrid" /\ req.pc = "official"
    /\ \E ok \in BOOLEAN :
        LET official == OfficialResults(official_documents, OfficialLimit,
                                        SimilarityThreshold)
            context == AllContext(req.user_notes, req.user_documents, official)
            parts == [i \in DOMAIN context |-> ContextPart(context[i])]
            searched == [req EXCEPT !.ran = @ \cup {"official"},
                                    !.embed_calls = @ + 1,
                                    !.official_docs = official,
                                    !.context = context]
        IN req' = IF ~ok THEN [Raise("official") EXCEPT !.embed_calls = @ + 1]
                  ELSE IF IsEmpty(parts)
                  THEN [searched EXCEPT
                         !.pc = "done",
                         !.result = [NoResult EXCEPT !.answer = "no_context"]]
                  ELSE [searched EXCEPT !.pc = "generate", !.prompt = parts]
    /\ UNCHANGED <<embedding_cache, cache_ttl, now, cacheLog, xq, rr, at,
                   notes, documents, official_documents, inflight, qm>>

\* response.text of a generation call that returns: a short text that
\* shares no term with the question, and a long one that does and cites.
Responses ==
    {<<"ok">>,
     <<"dor", SP, "fonte", SP, "xxxxxxxxxxxxxxxxxxxxxxxxxxxxxxxxxxxxxxxxxxxxxxxxxx">>}

\* Variant: an answer of low quality is withheld.
ReturnedAnswerIfHigh(response, quality_metrics) ==
    IF quality_metrics.is_high_quality THEN response ELSE <<"low_quality">>

\* "answer": response.text, after the quality check, which only prints.
ReturnedAnswer(response, quality_metrics) == response

\* max_retries = 3 of ask_with_hybrid_rag
max_retries == 3

\* Variant: a failed attempt is always followed by another.
MayRetryAlways(attempt) == TRUE

\* if attempt < max_retries - 1
MayRetry(attempt) == attempt < max_retries - 1

\* The dict MedicalAssistantAgent.chat returns for a hybrid_result.
ChatResult(hybrid_result) ==
    [response |-> hybrid_result.answer, context_used |-> hybrid_result.context_used,
     has_context |-> hybrid_result.has_context, agent |-> "Medical Assistant"]

\* One pass of the retry loop of ask_with_hybrid_rag: model.generate_content
\* returns or raises.  When it returns, the quality of the
\* response is measured and the result is returned; chat, which finds
\* has_context set, wraps it and returns.
HybridGenerate ==
    /\ req.op = "hybrid" /\ req.pc = "generate"
    /\ \E outcome \in {"ok", "exhausted", "error"}, text \in Responses :
        LET called == [req EXCEPT !.gen_calls = @ + 1]
            all_context == AllContext(req.user_notes, req.user_documents,
                                      req.official_docs)
            quality_metrics ==
                validate_response_quality(text, req.question, all_context)
            returned(answer) ==
                [raised |-> FALSE, answer |-> answer, context_used |-> all_context,
                 has_context |-> TRUE, sources |-> req.prompt]
            generated ==
                returned(ReturnedAnswer(text, quality_metrics))
                  @@ [quality_metrics |-> quality_metrics]
        IN req' = IF outcome = "ok"
                  THEN [called EXCEPT
                         !.pc = "done", !.response = text,
                         !.result = generated, !.chat = ChatResult(generated)]
                  ELSE IF MayRetry(req.attempt)
                  THEN [called EXCEPT !.attempt = @ + 1]
                  ELSE [called EXCEPT !.pc = "done", !.result = returned("error"),
                                      !.chat = ChatResult(returned("error"))]
    /\ UNCHANGED <<embedding_cache, cache_ttl, now, cacheLog, xq, rr, at,
                   notes, documents, official_documents, inflight, qm>>

\* MedicalAssistantAgent.chat after a hybrid_result without context: the web
\* search returns results and generate_response, which returns a text
\* whatever happens to its provider, gives the answer; or the search returns
\* nothing; or it raises, which chat catches.
ChatWebFallback ==
    /\ ChatPending
    /\ \E web \in {"found", "nothing", "raised"} :
        LET hybrid_result ==
                IF web = "found"
                THEN [req.result EXCEPT !.answer = "web_answer", !.has_context = TRUE]
                ELSE req.result
        IN req' = [req EXCEPT !.chat = ChatResult(hybrid_result)]
    /\ UNCHANGED <<embedding_cache, cache_ttl, now, cacheLog, xq, rr, at,
                   notes, documents, official_documents, inflight, qm>>

\* ask_with_context: RAGService.semantic_search(similarity_threshold=0.2).
ContextNotesSearch ==
    /\ req.op = "context" /\ req.pc = "notes"
    /\ \E ok \in BOOLEAN :
        req' = IF ok
               THEN [req EXCEPT
                      !.pc = "docs", !.ran = @ \cup {"notes"},
                      !.embed_calls = @ + 1,
                      !.user_notes =
                          SemanticSearchResults(notes, req.user, ContextLimit,
                                                SimilarityThreshold)]
               ELSE [Raise("notes") EXCEPT !.embed_calls = @ + 1]
    /\ UNCHANGED <<embedding_cache, cache_ttl, now, cacheLog, xq, rr, at,
                   notes, documents, official_documents, inflight, qm>>

\* ask_with_context: RAGService.search_documents, then the merge by
\* similarity, the cut and the early return.
ContextDocsSearch ==
    /\ req.op = "context" /\ req.pc = "docs"
    /\ \E ok \in BOOLEAN :
        LET docs == DocumentResults(documents, req.user, ContextLimit,
                                    SimilarityThreshold)
            all_context == Take(SortDesc(req.user_notes \o docs, "similarity"),
                                ContextLimit * 2)
            searched == [req EXCEPT !.ran = @ \cup {"documents"},
                                    !.embed_calls = @ + 1,
                                    !.user_documents = docs,
                                    !.context = all_context]
        IN req' = IF ~ok THEN [Raise("documents") EXCEPT !.embed_calls = @ + 1]
                  ELSE IF IsEmpty(all_context)
                  THEN [searched EXCEPT
                         !.pc = "done",
                         !.result = [NoResult EXCEPT !.answer = "no_context"]]
                  ELSE [searched EXCEPT
                         !.pc = "generate",
                         !.prompt = [i \in DOMAIN all_context |->
                                       ContextPart(all_context[i])]]
    /\ UNCHANGED <<embedding_cache, cache_ttl, now, cacheLog, xq, rr, at,
                   notes, documents, official_documents, inflight, qm>>

\* One pass of the retry loop of ask_with_context: ResourceExhausted is
\* retried (max_retries = 3), any other exception ends the request.
ContextGenerate ==
    /\ req.op = "context" /\ req.pc = "generate"
    /\ \E outcome \in {"ok", "exhausted", "error"} :
        LET called == [req EXCEPT !.gen_calls = @ + 1]
            failed(text) ==
                [called EXCEPT !.pc = "done",
                               !.result = [NoResult EXCEPT !.answer = text]]
        IN req' = IF outcome = "ok"
                  THEN [called EXCEPT
                         !.pc = "done",
                         !.result =
                             [raised |-> FALSE, answer |-> "generated",
                              context_used |->
                                  [i \in DOMAIN req.context |->
                                     [id |-> req.context[i].id,
                                      similarity |-> req.context[i].similarity,
                                      type |-> TypeOf(req.context[i])]],
                              has_context |-> TRUE, sources |-> <<>>]]
                  ELSE IF outcome = "exhausted"
                  THEN IF req.attempt < 3 - 1
                       THEN [called EXCEPT !.attempt = @ + 1]
                       ELSE failed("overloaded")
                  ELSE failed("error")
    /\ UNCHANGED <<embedding_cache, cache_ttl, now, cacheLog, xq, rr, at,
                   notes, documents, official_documents, inflight, qm>>

Init ==
    /\ InitStores
    /\ InitCacheVars
    /\ xq = NoXq /\ rr = NoRr /\ at = NoAt
    /\ inflight = NoInflight /\ qm = NoQm

Next ==
    \/ StartHybrid \/ HybridNotesSearch \/ HybridDocsSearch
    \/ HybridOfficialSearch \/ HybridGenerate \/ ChatWebFallback
    \/ StartContext \/ ContextNotesSearch \/ ContextDocsSearch \/ ContextGenerate

Spec == Init /\ [][Next]_vars

(***************************************************************************)
(* RAGService.reindex_all_notes                                            *)
(*                                                                         *)
(* req holds the call: todo is the list the SELECT returned, visited the   *)
(* notes handed to create_or_update_embedding so far, written the notes    *)
(* whose note_embeddings row was created or updated.                       *)
(***************************************************************************)
ReindexTables == SUBSET {n \in SearchNotes : n.raw >= 20000}

\* The orders in which a SELECT without ORDER BY may return a set of rows.
Orders(rows) ==
    {f \in [1..Cardinality(rows) -> rows] : \A x \in rows : \E i \in DOMAIN f : f[i] = x}

\* select(Note).where(Note.user_id == user_id)
NotesOfUser(table, user_id) == {n \in table : n.user_id = user_id}

\* Variant: the loop is left at the first note that fails.
AfterErrorStop(call) ==
    [call EXCEPT !.errors = @ + 1, !.todo = SubSeq(@, 1, Len(call.visited))]

\* except Exception as e: errors += 1, and the loop goes on.
AfterError(call) == [call EXCEPT !.errors = @ + 1]

\* After the last note: return {"total_notes": len(notes), "indexed", "errors"}.
ReindexReturn(call) ==
    IF Len(call.visited) < Len(call.todo) THEN call
    ELSE [call EXCEPT !.pc = "done",
                      !.result = [total_notes |-> Len(call.todo),
                                  indexed |-> call.indexed,
                                  errors |-> call.errors]]

\* POST /rag/reindex: the SELECT of the user's notes.
ReindexStart ==
    /\ req.pc = "idle"
    /\ \E u \in Users : \E order \in Orders(NotesOfUser(notes, u)) :
          req' = ReindexReturn([pc |-> "loop", op |-> "reindex", user |-> u,
                                todo |-> order, visited |-> <<>>, written |-> {},
                                indexed |-> 0, errors |-> 0, result |-> None])
    /\ UNCHANGED <<embedding_cache, cache_ttl, now, cacheLog, xq, rr, at,
                   notes, documents, official_documents, inflight, qm>>

\* One pass of the loop: create_or_update_embedding(note, db) returns, or
\* the embedding provider raises in it before anything is written.
ReindexNote ==
    /\ req.op = "reindex" /\ req.pc = "loop"
    /\ \E ok \in BOOLEAN :
        LET note == req.todo[Len(req.visited) + 1]
            tried == [req EXCEPT !.visited = Append(@, note.id)]
        IN req' = ReindexReturn(
                      IF ok
                      THEN [tried EXCEPT !.indexed = @ + 1,
                                         !.written = @ \cup {note.id}]
                      ELSE AfterError(tried))
    /\ UNCHANGED <<embedding_cache, cache_ttl, now, cacheLog, xq, rr, at,
                   notes, documents, official_documents, inflight, qm>>

(***************************************************************************)
(* Specifications of the pure functions and of the cache.                  *)
(***************************************************************************)
NoReq == [pc |-> "off"]

StoresOff ==
    /\ notes = {}
    /\ documents = {}
    /\ official_documents = {}
    /\ req = NoReq

CacheOff ==
    /\ embedding_cache = EmptyMap
    /\ cache_ttl = EmptyMap
    /\ now = StartTime
    /\ cacheLog = NoCacheLog

InitExpandSpec ==
    /\ InitExpand
    /\ rr = NoRr /\ at = NoAt
    /\ inflight = NoInflight /\ qm = NoQm
    /\ CacheOff /\ StoresOff

NextExpand == ExpandOnce \/ ExpandTwice

SpecExpand == InitExpandSpec /\ [][NextExpand]_vars

InitCacheSpec ==
    /\ InitCacheVars
    /\ xq = NoXq /\ rr = NoRr /\ at = NoAt
    /\ inflight = NoInflight /\ qm = NoQm
    /\ StoresOff

PutAny == \E q \in CacheQueries, v \in Vectors : CacheEmbedding(q, v)

GetAny == \E q \in CacheQueries : GetCachedEmbedding(q)

NextCache == PutAny \/ GetAny \/ Tick

SpecCache == InitCacheSpec /\ [][NextCache]_vars

InitThresholdSpec ==
    /\ (InitThresholdVars \/ InitSearchVars \/ InitOfficialVars)
    /\ xq = NoXq /\ rr = NoRr
    /\ inflight = NoInflight /\ qm = NoQm
    /\ CacheOff /\ StoresOff

NextThreshold ==
    AdaptiveThreshold \/ OptimizedSemanticSearch \/ SearchOfficialDocuments

SpecThreshold == InitThresholdSpec /\ [][NextThreshold]_vars

InitRerankSpec ==
    /\ InitRerankVars
    /\ xq = NoXq /\ at = NoAt
    /\ inflight = NoInflight /\ qm = NoQm
    /\ CacheOff /\ StoresOff

NextRerank == RerankResults \/ CalculateRelevanceScore

SpecRerank == InitRerankSpec /\ [][NextRerank]_vars

(***************************************************************************)
(* Retrievals running side by side on the embedding cache.                 *)
(*                                                                         *)
(* Steps 1 to 3 of optimized_semantic_search, one step for each call or    *)
(* assignment that reads or writes the two class-level dicts:              *)
(* get_cached_embedding, the provider call, then the two assignments of    *)
(* cache_embedding.  RAGOptimizer holds no lock, so nothing orders these   *)
(* steps between callers on different threads.  (Coroutines of a single    *)
(* event loop cannot interleave inside them: none of the three awaits.)    *)
(***************************************************************************)
Callers == {"r1", "r2"}

RaceQueries == {<<"dor">>, <<"DOR", SP>>, <<"rx">>}

\* Variant: a failure of the provider is swallowed and an empty vector returned.
generate_query_embedding_quiet(query, outcome) ==
    IF outcome = "fails" THEN [raised |-> FALSE, embedding |-> "empty"]
    ELSE [raised |-> FALSE, embedding |-> outcome]

\* EmbeddingService.generate_query_embedding: genai.embed_content returns a
\* vector or raises, and nothing catches the exception.
generate_query_embedding(query, outcome) ==
    IF outcome = "fails" THEN [raised |-> TRUE, embedding |-> None]
    ELSE [raised |-> FALSE, embedding |-> outcome]

\* The cache key of a caller: _get_query_hash(search_query).
KeyOf(c) == GetQueryHash(expand_query(inflight[c].query))

\* A caller that has seen a miss and has not finished inserting.
Inserting(c) == inflight[c].pc \in {"embed", "put_vector", "put_ttl"}

\* provided: what the provider returned to the caller; raced: the caller saw
\* its miss while another caller of the same key was inserting, or the reverse.
InitInflight ==
    inflight \in [Callers ->
                    {[pc |-> "get", query |-> q, query_embedding |-> None,
                      provided |-> None, raced |-> FALSE, used |-> None] :
                        q \in RaceQueries}]

\* query_embedding = RAGOptimizer.get_cached_embedding(search_query)
RetrievalGet(c) ==
    /\ inflight[c].pc = "get"
    /\ LET got == get_cached_embedding(embedding_cache, cache_ttl, now,
                                       expand_query(inflight[c].query))
           rivals == {d \in Callers \ {c} : KeyOf(d) = KeyOf(c) /\ Inserting(d)}
           miss == ~got.raised /\ got.ret = None
       IN /\ embedding_cache' = got.cache
          /\ cache_ttl' = got.ttl
          /\ inflight' =
               [d \in Callers |->
                  IF d = c
                  THEN [inflight[c] EXCEPT
                         !.pc = IF got.raised THEN "cache_error"
                                ELSE IF miss THEN "embed" ELSE "search",
                         !.query_embedding = got.ret,
                         !.raced = miss /\ rivals # {}]
                  ELSE IF miss /\ d \in rivals
                  THEN [inflight[d] EXCEPT !.raced = TRUE]
                  ELSE inflight[d]]
    /\ UNCHANGED <<now, cacheLog, xq, rr, at, notes, documents, official_documents,
                   req, qm>>

\* query_embedding = EmbeddingService.generate_query_embedding(search_query)
RetrievalEmbed(c) ==
    /\ inflight[c].pc = "embed"
    /\ \E outcome \in Vectors \cup {"fails"} :
        LET r == generate_query_embedding(expand_query(inflight[c].query), outcome)
        IN inflight' = [inflight EXCEPT
                          ![c].pc = IF r.raised THEN "provider_error" ELSE "put_vector",
                          ![c].query_embedding = r.embedding,
                          ![c].provided = outcome]
    /\ UNCHANGED <<embedding_cache, cache_ttl, now, cacheLog, xq, rr, at,
                   notes, documents, official_documents, req, qm>>

\* cache_embedding, first assignment: cls._embedding_cache[query_hash] = embedding
RetrievalPutVector(c) ==
    /\ inflight[c].pc = "put_vector"
    /\ embedding_cache' =
           cache_embedding(embedding_cache, cache_ttl, now,
                           expand_query(inflight[c].query),
                           inflight[c].query_embedding).cache
    /\ cacheLog' = [cacheLog EXCEPT
           !.puts = MapPut(@, KeyOf(c), [vec |-> inflight[c].query_embedding,
                                         at |-> now, query |-> inflight[c].query])]
    /\ inflight' = [inflight EXCEPT ![c].pc = "put_ttl"]
    /\ UNCHANGED <<cache_ttl, now, xq, rr, at, notes, documents, official_documents,
                   req, qm>>

\* cache_embedding, second assignment: cls._cache_ttl[query_hash] = time.time()
RetrievalPutTtl(c) ==
    /\ inflight[c].pc = "put_ttl"
    /\ cache_ttl' =
           cache_embedding(embedding_cache, cache_ttl, now,
                           expand_query(inflight[c].query),
                           inflight[c].query_embedding).ttl
    /\ inflight' = [inflight EXCEPT ![c].pc = "search"]
    /\ UNCHANGED <<embedding_cache, now, cacheLog, xq, rr, at,
                   notes, documents, official_documents, req, qm>>

\* db.execute(sql_query, {"query_embedding": str(query_embedding), ...})
RetrievalSearch(c) ==
    /\ inflight[c].pc = "search"
    /\ inflight' = [inflight EXCEPT ![c].pc = "done",
                                    ![c].used = inflight[c].query_embedding]
    /\ UNCHANGED <<embedding_cache, cache_ttl, now, cacheLog, xq, rr, at,
                   notes, documents, official_documents, req, qm>>

InitRaceSpec ==
    /\ InitInflight
    /\ InitCacheVars
    /\ xq = NoXq /\ rr = NoRr /\ at = NoAt /\ qm = NoQm
    /\ StoresOff

NextRace ==
    \/ \E c \in Callers : RetrievalGet(c)
    \/ \E c \in Callers : RetrievalEmbed(c)
    \/ \E c \in Callers : RetrievalPutVector(c)
    \/ \E c \in Callers : RetrievalPutTtl(c)
    \/ \E c \in Callers : RetrievalSearch(c)
    \/ Tick

SpecRace == InitRaceSpec /\ [][NextRace]_vars

InitReindexSpec ==
    /\ notes \in ReindexTables
    /\ documents = {} /\ official_documents = {}
    /\ req = IdleReq
    /\ xq = NoXq /\ rr = NoRr /\ at = NoAt
    /\ inflight = NoInflight /\ qm = NoQm
    /\ CacheOff

NextReindex == ReindexStart \/ ReindexNote

SpecReindex == InitReindexSpec /\ [][NextReindex]_vars

InitQualitySpec ==
    /\ InitQualityVars
    /\ xq = NoXq /\ rr = NoRr /\ at = NoAt /\ inflight = NoInflight
    /\ CacheOff /\ StoresOff

NextQuality == ValidateResponseQuality

SpecQuality == InitQualitySpec /\ [][NextQuality]_vars

(***************************************************************************)
(* Claims about the cache.                                                 *)
(***************************************************************************)
GetKey == NormalForm(cacheLog.get.query)

PutBeforeGet == cacheLog.get.made /\ GetKey \in DOMAIN cacheLog.puts

\* C4: a get whose query has the normalised key of an earlier put, made less
\* than CACHE_TTL_SECONDS after the last put on that key, returns exactly the
\* vector of that put (and does not raise).
C4_CacheRoundTrip ==
    (PutBeforeGet /\ now - cacheLog.puts[GetKey].at < CACHE_TTL_SECONDS)
        => /\ cacheLog.get.ret = cacheLog.puts[GetKey].vec
           /\ ~cacheLog.get.raised

\* A get under another spelling of the key, after time has passed, inside the TTL.
C4_Witness ==
    /\ PutBeforeGet
    /\ cacheLog.get.query # cacheLog.puts[GetKey].query
    /\ now - cacheLog.puts[GetKey].at = CACHE_TTL_SECONDS - 1
    /\ cacheLog.get.ret = cacheLog.puts[GetKey].vec

\* C5: a get made CACHE_TTL_SECONDS or more after the last put on its key
\* returns None and leaves the key in neither the vector map nor the timestamp
\* map; so no get returns an expired vector.
C5_CacheExpiry ==
    (PutBeforeGet /\ now - cacheLog.puts[GetKey].at >= CACHE_TTL_SECONDS)
        => /\ cacheLog.get.ret = None
           /\ ~cacheLog.get.raised
           /\ GetKey \notin DOMAIN embedding_cache
           /\ GetKey \notin DOMAIN cache_ttl

\* A get made exactly CACHE_TTL_SECONDS after the put.
C5_Witness ==
    /\ PutBeforeGet
    /\ now - cacheLog.puts[GetKey].at = CACHE_TTL_SECONDS
    /\ cacheLog.get.ret = None

(***************************************************************************)
(* Claims about expand_query, rerank_results, adaptive_threshold.          *)
(***************************************************************************)
\* C6: the tokens of expand_query(expand_query(q)) are the tokens of
\* expand_query(q).
C6_ExpandIdempotent ==
    xq.step = "twice" => TokenSet(xq.twice) = TokenSet(xq.once)

\* An upper-case spelling of a synonym key was expanded, beside another word.
C6_Witness ==
    /\ xq.step = "twice"
    /\ "DOR" \in TokenSet(xq.query)
    /\ "rx" \in TokenSet(xq.query)
    /\ "algia" \in TokenSet(xq.twice)
    /\ xq.once # xq.query

Unscored(x) == [f \in DOMAIN x \ {"relevance_score"} |-> x[f]]

\* C7: rerank_results returns a permutation of its input (every input item
\* exactly once, nothing else), sorted by non-increasing relevance_score.
C7_RerankPermutationSorted ==
    rr.step = "done" =>
        /\ Len(rr.ret) = Len(rr.results)
        /\ \A i \in DOMAIN rr.results :
              Cardinality({j \in DOMAIN rr.ret : Unscored(rr.ret[j]) = rr.results[i]}) = 1
        /\ \A j \in 1..(Len(rr.ret) - 1) :
              rr.ret[j].relevance_score >= rr.ret[j + 1].relevance_score

\* Three results, returned in another order than given, two of them with
\* equal scores.
C7_Witness ==
    /\ rr.step = "done"
    /\ Len(rr.ret) >= 3
    /\ rr.ret[1].id = 3
    /\ rr.ret[2].relevance_score = rr.ret[3].relevance_score
    /\ rr.ret[1].relevance_score > rr.ret[2].relevance_score

AvgAbove60 ==
    /\ at.results # <<>>
    /\ SumSimilarity(at.results) > 60000 * Len(at.results)

\* C8: for a non-empty result set of mean similarity above 0.6 and any pair
\* min_threshold <= max_threshold, the value returned lies in
\* [min_threshold, max_threshold].
C8_ThresholdWithinBounds ==
    (at.step = "done" /\ AvgAbove60) =>
        /\ RatLeq(Rat(at.min_threshold, 1), at.ret)
        /\ RatLeq(at.ret, Rat(at.max_threshold, 1))

(***************************************************************************)
(* Claims about hybrid_search, ask_with_hybrid_rag and ask_with_context.   *)
(***************************************************************************)
AllSources == {"notes", "documents", "official"}

Ids(results) == {results[i].id : i \in DOMAIN results}

\* The source list of the request that an item of a context came from.
SourceRank(item) ==
    IF item.id \in Ids(req.user_notes) THEN 1
    ELSE IF item.id \in Ids(req.user_documents) THEN 2
    ELSE 3

PriorityOrdered(context) ==
    \A i, j \in DOMAIN context :
        i < j => SourceRank(context[i]) <= SourceRank(context[j])

\* C1: in ask_with_hybrid_rag, the context handed to generation and the
\* context_used returned hold every user-note result before every
\* user-document result, and every user-document result before every
\* official-document result, whatever the similarities.
C1_PriorityOrder ==
    req.op = "hybrid" =>
        /\ PriorityOrdered(req.prompt)
        /\ PriorityOrdered(req.result.context_used)

\* A returned context of all three sources whose first item, a note, has a
\* lower similarity than the document and the official result after it.
C1_Witness ==
    /\ req.op = "hybrid" /\ req.pc = "done" /\ req.result.has_context
    /\ Len(req.result.context_used) >= 3
    /\ SourceRank(req.result.context_used[1]) = 1
    /\ \E i, j \in DOMAIN req.result.context_used :
          /\ SourceRank(req.result.context_used[i]) = 2
          /\ SourceRank(req.result.context_used[j]) = 3
          /\ req.result.context_used[1].similarity < req.result.context_used[i].similarity
          /\ req.result.context_used[i].similarity < req.result.context_used[j].similarity

SourcesOf(op) == IF op = "hybrid" THEN AllSources ELSE {"notes", "documents"}

NothingFound ==
    /\ req.op \in {"hybrid", "context"}
    /\ req.ran = SourcesOf(req.op)
    /\ req.user_notes = <<>> /\ req.user_documents = <<>> /\ req.official_docs = <<>>

\* C2: when every source search of an ask has returned and none has a
\* result, the ask has ended without an exception, with has_context = False
\* and context_used = [], and the generation provider was not called.
C2_NoContext ==
    NothingFound =>
        /\ req.pc = "done"
        /\ ~req.result.raised
        /\ req.result.answer = "no_context"
        /\ ~req.result.has_context
        /\ req.result.context_used = <<>>
        /\ req.gen_calls = 0

\* The stores hold notes, documents and official documents, and the hybrid
\* ask of this user finds none of them.
C2_Witness ==
    /\ NothingFound /\ req.op = "hybrid" /\ req.pc = "done"
    /\ notes # {} /\ documents # {} /\ official_documents # {}

\* C3: in hybrid_search a source whose search raises contributes nothing,
\* the other sources are still searched, and the caller sees an error only
\* if all three searches raised.
C3_FailureIsolated ==
    (req.op = "hybrid" /\ req.pc = "done" /\ req.result # Rejected) =>
        /\ req.ran \cup req.failed = AllSources
        /\ req.result.raised <=> req.failed = AllSources

RawOf(table, id) == (CHOOSE x \in table : x.id = id).raw

\* C9: every result hybrid_search emits, from any of the three sources, has
\* a similarity strictly above the similarity threshold of the query.
C9_StrictlyAboveThreshold ==
    req.op = "hybrid" =>
        /\ \A r \in Range(req.user_notes) : RawOf(notes, r.id) > SimilarityThreshold
        /\ \A r \in Range(req.user_documents) :
              RawOf(documents, r.id) > SimilarityThreshold
        /\ \A r \in Range(req.official_docs) :
              RawOf(official_documents, r.id) > SimilarityThreshold

OwnNotes == {n \in notes : n.user_id = req.user}

OwnDocuments == {d \in documents : d.user_id = req.user}

\* C10: the note and document results of a search made for a user are rows
\* of that user, and they are the results the same search gives when the
\* other users own nothing.
C10_OwnerScoped ==
    /\ "notes" \in req.ran =>
          /\ \A r \in Range(req.user_notes) :
                \E n \in notes : n.id = r.id /\ n.user_id = req.user
          /\ req.user_notes =
                IF req.op = "hybrid"
                THEN OptimizedNoteResults(OwnNotes, req.user, UserLimit,
                                          SimilarityThreshold)
                ELSE SemanticSearchResults(OwnNotes, req.user, ContextLimit,
                                           SimilarityThreshold)
    /\ "documents" \in req.ran =>
          /\ \A r \in Range(req.user_documents) :
                \E d \in documents : d.id = r.id /\ d.user_id = req.user
          /\ req.user_documents =
                DocumentResults(OwnDocuments, req.user,
                                IF req.op = "hybrid" THEN UserLimit ELSE ContextLimit,
                                SimilarityThreshold)

\* A's searches return A's rows while B owns a note and a document of higher
\* similarity.
C10_Witness ==
    /\ req.user = "A" /\ req.ran = AllSources
    /\ req.user_notes # <<>> /\ req.user_documents # <<>>
    /\ \E n \in notes : n.user_id = "B" /\ n.raw > 90000
    /\ \E d \in documents : d.user_id = "B" /\ d.raw > 60000

\* C11: a request with an empty query ends with the validation error, and
\* for it the embedding provider and the vector index were never called
\* (no search ran or failed), no generation was made and nothing was retried.
C11_EmptyQueryRejected ==
    (req.op \in {"hybrid", "context"} /\ req.question = <<>>) =>
        /\ req.pc = "done"
        /\ req.result = Rejected
        /\ req.embed_calls = 0
        /\ req.ran = {} /\ req.failed = {}
        /\ req.gen_calls = 0 /\ req.attempt = 0

\* An empty hybrid question rejected after an earlier request was served,
\* the stores holding rows that a search would have found.
C11_Witness ==
    /\ req.op = "hybrid" /\ req.question = <<>> /\ req.result = Rejected
    /\ req.count = 2
    /\ \E n \in notes : n.user_id = req.user

(***************************************************************************)
(* Claims about retrievals running side by side.                           *)
(***************************************************************************)
\* What a lookup of each query returns at time t: the content of the cache
\* as its callers see it.
Lookups(cache, ttl, t) ==
    [q \in RaceQueries |-> get_cached_embedding(cache, ttl, t, expand_query(q)).ret]

\* C12: a retrieval whose provider call failed stops there with the error
\* (it holds no vector and never searches).  The step on which the provider
\* fails leaves both maps of the cache as they were, the retrieval takes no
\* step after it, and the lookup that found the miss before it changed what
\* no lookup returns (at most it dropped an expired entry): the retrieval
\* inserts nothing.
C12_ProviderFailureSurfaced ==
    /\ [](\A c \in DOMAIN inflight :
            inflight[c].provided = "fails" =>
                /\ inflight[c].pc = "provider_error"
                /\ inflight[c].query_embedding = None
                /\ inflight[c].used = None)
    /\ [][\A c \in DOMAIN inflight :
            /\ (inflight[c].provided # "fails" /\ inflight'[c].provided = "fails")
                  => UNCHANGED <<embedding_cache, cache_ttl>>
            /\ inflight[c].pc = "provider_error" => inflight'[c] = inflight[c]
            /\ (inflight[c].pc = "get" /\ inflight'[c].pc = "embed")
                  => /\ Lookups(embedding_cache', cache_ttl', now')
                          = Lookups(embedding_cache, cache_ttl, now)
                     /\ DOMAIN embedding_cache' \subseteq DOMAIN embedding_cache]_vars

\* The provider failed on a miss that came from an expired entry: the other
\* caller had cached the key, the entry was purged by the get, and the key is
\* in neither map.
C12_Witness ==
    \E c \in DOMAIN inflight :
        /\ inflight[c].provided = "fails"
        /\ KeyOf(c) \in DOMAIN cacheLog.puts
        /\ KeyOf(c) \notin DOMAIN embedding_cache
        /\ KeyOf(c) \notin DOMAIN cache_ttl

\* C13: no call of get_cached_embedding or cache_embedding raises, whatever
\* the order of the steps of the callers.
C13_CacheNeverRaises ==
    \A c \in DOMAIN inflight : inflight[c].pc # "cache_error"

\* The entry of key k is fresh: its vector was written less than
\* CACHE_TTL_SECONDS ago.
FreshEntry(k) ==
    k \in DOMAIN cacheLog.puts /\ now - cacheLog.puts[k].at < CACHE_TTL_SECONDS

\* C14: two retrievals of one key that both saw a miss before either had
\* finished inserting both get through their cache calls, each searches with
\* the vector the provider returned to it, and once both are done the cache
\* holds for the key the vector written last, readable while it is fresh.
C14_LastWriteWins ==
    \A c, d \in DOMAIN inflight :
        (c # d /\ inflight[c].raced /\ inflight[d].raced /\ KeyOf(c) = KeyOf(d)) =>
            /\ inflight[c].pc # "cache_error"
            /\ inflight[c].pc = "done" =>
                  /\ inflight[c].used \in Vectors
                  /\ inflight[c].used = inflight[c].provided
            /\ (inflight[c].pc = "done" /\ inflight[d].pc = "done"
                    /\ FreshEntry(KeyOf(c))) =>
                  /\ KeyOf(c) \in DOMAIN embedding_cache
                  /\ embedding_cache[KeyOf(c)] = cacheLog.puts[KeyOf(c)].vec
                  /\ get_cached_embedding(embedding_cache, cache_ttl, now,
                                          expand_query(inflight[c].query)).ret
                        = cacheLog.puts[KeyOf(c)].vec

\* Both retrievals are done after a race in which the provider gave them
\* different vectors, and the entry left has the vector of one and the
\* timestamp written by the other.
C14_Witness ==
    /\ inflight # NoInflight
    /\ inflight["r1"].raced /\ inflight["r2"].raced
    /\ inflight["r1"].pc = "done" /\ inflight["r2"].pc = "done"
    /\ inflight["r1"].used # inflight["r2"].used
    /\ embedding_cache[KeyOf("r1")] = inflight["r1"].used
    /\ cache_ttl[KeyOf("r1")] > cacheLog.puts[KeyOf("r1")].at

(***************************************************************************)
(* Claims about the embedding calls and the context of the asks.           *)
(***************************************************************************)
\* C15: in a hybrid retrieval that found a valid entry of its query in the
\* embedding cache the embedding provider is not called at all, and in one
\* that found none the provider was called and its vector is in the cache
\* by the time a source search has run.
C15_EmbeddingThroughCache ==
    req.op = "hybrid" =>
        /\ req.cache_hit => req.embed_calls = 0
        /\ (~req.cache_hit /\ req.ran # {}) =>
              /\ req.embed_calls >= 1
              /\ GetQueryHash(expand_query(req.question)) \in DOMAIN embedding_cache

\* C16: the context ask_with_context assembles holds every note result
\* before every document result, whatever the similarities.
C16_ContextNotesFirst ==
    req.op = "context" => PriorityOrdered(req.context)

(***************************************************************************)
(* Claims about validate_response_quality.                                 *)
(***************************************************************************)
\* C17: in every report, is_high_quality is true exactly when the
\* quality_score of the report is at least 0.6.
C17_HighQualityIffScore ==
    qm.step = "done" =>
        (qm.ret.is_high_quality <=> qm.ret.quality_score >= 60)

\* C18: when a generation call of ask_with_hybrid_rag has returned, whatever
\* the quality report says, the answer is the text of that call, context_used
\* is the list of the three result lists, sources are those of the prompt,
\* and that call was the last generation call of the request.
C18_QualityNeverBlocks ==
    (req.op = "hybrid" /\ req.pc = "done" /\ req.response # <<>>) =>
        /\ "quality_metrics" \in DOMAIN req.result
        /\ req.result.answer = req.response
        /\ req.result.context_used =
              req.user_notes \o req.user_documents \o req.official_docs
        /\ req.result.sources = req.prompt
        /\ req.result.has_context
        /\ req.gen_calls = req.attempt + 1

\* A response judged of low quality, returned after one failed generation
\* call, with a context.
C18_Witness ==
    /\ req.op = "hybrid" /\ req.pc = "done" /\ req.response # <<>>
    /\ ~req.result.quality_metrics.is_high_quality
    /\ req.result.context_used # <<>>
    /\ req.attempt = 1 /\ req.gen_calls = 2

(***************************************************************************)
(* Further claims about expand_query and calculate_relevance_score.        *)
(***************************************************************************)
NoSynonymKey(query) ==
    \A w \in TokenSet(query) : Lower(w) \notin DOMAIN medical_synonyms

\* C19: for a query none of whose tokens, lower-cased, is a key of the
\* synonym table, expand_query returns the query string as it was given.
C19_UnmatchedQueryUnchanged ==
    (xq.step \in {"once", "twice"} /\ NoSynonymKey(xq.query)) =>
        xq.once = xq.query

\* The bonuses of the arguments of a call, in score units:
\* 0.15 if favorite, 0.15 * (1 - min(ageDays, 365) / 365), 0.1 if tagged.
FavoriteBonus == IF rr.args.is_favorite THEN 365 * 150000 ELSE 0

RecencyBonus == 150000 * (365 - Min2(rr.args.recency_days, 365))

TagsBonus == IF rr.args.has_tags THEN 365 * 100000 ELSE 0

\* C20 (as stated): relevance = min(1.0, 0.6 * similarity + 0.15 * favoriteBonus
\* + 0.15 * recencyBonus + 0.1 * tagsBonus).  Every bonus is a multiple of 100
\* score units, so the divisions are exact.
C20_RelevanceAsStated ==
    rr.step = "scored" =>
        rr.ret =
            Min2(ScoreOne,
                 365 * 6 * rr.args.similarity + 15 * (FavoriteBonus \div 100)
                   + 15 * (RecencyBonus \div 100) + 10 * (TagsBonus \div 100))

\* C20 (amended): relevance = min(1.0, 0.6 * similarity + favoriteBonus
\* + recencyBonus + tagsBonus): the bonuses already carry their weights.
C20_RelevanceFormula ==
    rr.step = "scored" =>
        rr.ret = Min2(ScoreOne,
                      365 * 6 * rr.args.similarity + FavoriteBonus
                        + RecencyBonus + TagsBonus)

\* A call whose sum of terms exceeds 1.0 and is capped, every bonus being
\* non-zero.
C20_Witness ==
    /\ rr.step = "scored"
    /\ rr.args.is_favorite /\ rr.args.has_tags /\ rr.args.recency_days < 0
    /\ 365 * 6 * rr.args.similarity + FavoriteBonus + RecencyBonus + TagsBonus
          > ScoreOne
    /\ rr.ret = ScoreOne

(***************************************************************************)
(* Claims about rerank_results as a call: its effect on the argument, the  *)
(* age it gives an item, the order of equal scores.                        *)
(***************************************************************************)
\* C21: after rerank_results the list passed in has the same items in the
\* same order, each with the same fields and values, as before the call.
C21_RerankPure ==
    rr.step = "done" => rr.results_after = rr.results

UnknownAge(created_at) == created_at.kind \in {"none", "empty", "badstr"}

\* C22: an item whose created_at is missing, empty or an unparsable string
\* gets the score of an item 365 days old (recency bonus 0).
C22_UnknownAgeIs365 ==
    rr.step = "done" =>
        \A j \in DOMAIN rr.ret :
            UnknownAge(rr.ret[j].created_at) =>
                rr.ret[j].relevance_score =
                    calculate_relevance_score(rr.ret[j].similarity,
                                              rr.ret[j].is_favorite, 365,
                                              rr.ret[j].tags # <<>>)

C26_AdaptiveNeverEmpties ==
    (at.step = "searched" /\ at.fetched # <<>>) => at.kept # <<>>

(***************************************************************************)
(* Claims about reindex_all_notes.                                         *)
(***************************************************************************)
Times(xs, x) == Cardinality({k \in DOMAIN xs : xs[k] = x})

HasContextIffUsed(d) == d.has_context <=> d.context_used # <<>>

\* C27: in every dict ask_with_context, ask_with_hybrid_rag or
\* MedicalAssistantAgent.chat returns, has_context is true exactly when
\* context_used is not empty.
C27_HasContextIffContextUsed ==
    /\ (req.pc = "done" /\ ~req.result.raised /\ req.result # Rejected)
          => HasContextIffUsed(req.result)
    /\ req.chat # NoChat => HasContextIffUsed(req.chat)

InHybridLoop == req.op = "hybrid" /\ req.pc = "generate"

\* C28: in ask_with_hybrid_rag the generation provider is called at most 3
\* times for a request; every pass of the loop makes one call and either
\* ends the operation or moves to the next attempt, and a call that returns
\* ends it; when the third call fails too, the operation returns (it does
\* not raise) the error answer with the retrieved context and
\* has_context = True.
C28_RetryLoopBounded ==
    /\ [](req.op = "hybrid" =>
            /\ req.gen_calls <= 3
            /\ req.pc = "generate" => (req.gen_calls = req.attempt /\ req.attempt < 3)
            /\ (req.pc = "done" /\ req.gen_calls > 0) =>
                  /\ ~req.result.raised
                  /\ req.result.has_context
                  /\ req.result.context_used # <<>>
                  /\ req.result.context_used = req.context
                  /\ req.result.answer = "error" <=>
                        (req.gen_calls = 3 /\ req.response = <<>>)
                  /\ req.result.answer # "error" =>
                        (req.gen_calls = req.attempt + 1 /\ req.response # <<>>))
    /\ [][InHybridLoop =>
            /\ req'.gen_calls = req.gen_calls + 1
            /\ \/ req'.pc = "done"
               \/ req'.pc = "generate" /\ req'.attempt = req.attempt + 1]_vars

\* Three calls failed: the error answer carries the context of two sources.
C28_Witness ==
    /\ req.op = "hybrid" /\ req.pc = "done"
    /\ req.gen_calls = 3 /\ req.attempt = 2
    /\ req.result.answer = "error"
    /\ req.result.has_context
    /\ Len(req.result.context_used) >= 2

(***************************************************************************)
(* Claims about _search_official_documents as a call.                      *)
(***************************************************************************)
Qualifying(table, threshold) == {d \in table : d.raw >= threshold}

\* C29: _search_official_documents returns min(limit, k) results, k being
\* the number of official documents of similarity at least the threshold.
C29_OfficialReturnsMinLimitK ==
    at.step = "official_done" =>
        Len(at.ret) =
            Min2(at.limit, Cardinality(Qualifying(at.table, at.similarity_threshold)))

(***************************************************************************)
(* Claims about the two maps of the cache.                                 *)
(***************************************************************************)
\* C30: after every get_cached_embedding and cache_embedding call of a
\* sequence of such calls, the vector map and the timestamp map have the
\* same keys.
C30_CacheMapsSameKeys ==
    DOMAIN embedding_cache = DOMAIN cache_ttl

\* A get has just removed an expired entry, and an entry of another key,
\* put later, is in both maps.
C30_Witness ==
    /\ cacheLog.get.made /\ cacheLog.get.ret = None
    /\ NormalForm(cacheLog.get.query) \in DOMAIN cacheLog.puts
    /\ NormalForm(cacheLog.get.query) \notin DOMAIN embedding_cache
    /\ DOMAIN embedding_cache # {}
====
